---- MODULE Spec2Model ----
(***************************************************************************)
(* Dependency-graph engine of the spreadsheet: the operation / value      *)
(* stores, the sensitivity lists, the indegree workspace, calc, topo_sort *)
(* and cell_update (src/src/main.rs, src/src/utils/toposort.rs,           *)
(* src/src/utils/operations.rs).                                          *)
(*                                                                         *)
(* An operation code is modelled as the sequence of its characters        *)
(* (<<"C","V","A">> for "CVA", <<>> for the empty code of a fresh cell),  *)
(* so that starts_with('C') and chars().nth(1) are what the code tests.   *)
(***************************************************************************)
EXTENDS Integers, Sequences, FiniteSets, TLC

VARIABLES
  database,   \* Vec<i32>: the value of every cell, index 0 unused
  err,        \* Vec<bool>: the error flag of every cell
  opers,      \* Vec<Ops>: the operation of every cell
  sensi,      \* Vec<Vec<i32>>: sensi[x] lists the cells that read x
  indegree,   \* Vec<i32>: the workspace handed to every topo_sort call
  len_h,      \* number of columns, fixed at start-up
  len_v,      \* number of rows, fixed at start-up
  ret,        \* what the last cell_update call returned (-1: no call yet, -2: it aborted)
  inp_arr,    \* the request of the last cell_update call, operands resolved
  rev,        \* the operation the target held on entry to the last call (let rev)
  calc_seq,   \* the cells calc was invoked on during the last call, in order
  panicked,   \* the process has aborted (a panic inside calc)
  curr_h,     \* column of the top-left cell of the displayed window
  curr_v,     \* row of the top-left cell of the displayed window
  coord,      \* cell_to_int of the cell named by the last scroll_to (0: none yet)
  n_edits,    \* number of cell_update calls so far
  topo_vec,   \* the Vec<i32> the last topo_sort call returned (let topo), <<>> before any
  frame,      \* the locals of a topo_sort call that is followed loop by loop
  out         \* the parsed input line and its message (let out), <<>> before any line

vars == <<database, err, opers, sensi, indegree, len_h, len_v, ret, inp_arr, rev,
         calc_seq, panicked, curr_h, curr_v, coord, n_edits, topo_vec, frame, out>>

(* bounds of the exploration *)
MaxLit == 1
MaxEdits == 4
MaxSquareEdits == 3
MaxColumnEdits == 5

NCells == len_h * len_v
Idx == 0..NCells
Cells == 1..NCells
Lits == 0..MaxLit

RangeCodes == {<<"S","U","M">>, <<"M","I","N">>, <<"M","A","X">>,
               <<"M","E","A">>, <<"S","T","D">>}
ArithCodes == {<<a, b, o>> : a \in {"C","V"}, b \in {"C","V"}, o \in {"A","S","M","D"}}
EQV == <<"E","Q","V">>
EQC == <<"E","Q","C">>
SLV == <<"S","L","V">>
SLC == <<"S","L","C">>

Ops(code, c1, c2) == [opcpde |-> code, cell1 |-> c1, cell2 |-> c2]

starts_with_C(code) == Len(code) > 0 /\ code[1] = "C"
nth1_is_C(code) == Len(code) > 1 /\ code[2] = "C"
is_range(code) == code \in RangeCodes

(* int_to_ind(cell_to_int("")) : what an absent operand string resolves to *)
int_to_ind(a, w) == (a \div 1000) + ((a % 1000) - 1) * w
NoOperand == int_to_ind(0, len_h)

(* the column taken as the bare remainder, against which the rule "0 means the
   last column" is shown to matter *)
col_of_remainder(c) == c % len_h

(* column / row of a linear index, as recomputed at every rectangle scan *)
col_of(c) == IF c % len_h = 0 THEN len_h ELSE c % len_h
row_of(c) == (c \div len_h) + (IF col_of(c) # len_h THEN 1 ELSE 0)

(* indices visited by: for i in x1..=x2 { for j in y1..=y2 { .. } } *)
rect(c1, c2) ==
  { i + (j - 1) * len_h : i \in col_of(c1)..col_of(c2), j \in row_of(c1)..row_of(c2) }

(* the same loops with the guard !(xx1<=i && i<=xx2 && xy1<=j && j<=xy2) *)
rect_minus(c1, c2, d1, d2) ==
  LET P == { <<i, j>> \in (col_of(c1)..col_of(c2)) \X (row_of(c1)..row_of(c2)) :
               ~(col_of(d1) <= i /\ i <= col_of(d2) /\ row_of(d1) <= j /\ j <= row_of(d2)) }
  IN { p[1] + (p[2] - 1) * len_h : p \in P }


(***************************************************************************)
(* i32 arithmetic.  An exact result outside i32 aborts the process when    *)
(* the build checks overflow and wraps modulo 2^32 when it does not; the   *)
(* quotient INT_MIN / -1 aborts the process in every build.                *)
(***************************************************************************)

INT_MAX == 2147483647
INT_MIN == -2147483647 - 1

add_over(a, b) == (b > 0 /\ a > INT_MAX - b) \/ (b < 0 /\ a < INT_MIN - b)
wrapping_add(a, b) ==
  IF b > 0 /\ a > INT_MAX - b THEN ((a - INT_MAX) - 1) + ((b - INT_MAX) - 1)
  ELSE IF b < 0 /\ a < INT_MIN - b THEN (a - INT_MIN) + (b - INT_MIN)
  ELSE a + b

sub_over(a, b) == (b < 0 /\ a > INT_MAX + b) \/ (b > 0 /\ a < INT_MIN + b)
wrapping_sub(a, b) ==
  IF b < 0 /\ a > INT_MAX + b THEN ((a - INT_MAX) - 1) - ((b + INT_MAX) + 1)
  ELSE IF b > 0 /\ a < INT_MIN + b THEN (a - INT_MIN) - (b + INT_MIN)
  ELSE a - b

mul_over(a, b) ==
  IF a = 0 \/ b = 0 THEN FALSE
  ELSE IF a = INT_MIN THEN b # 1
  ELSE IF b = INT_MIN THEN a # 1
  ELSE LET x == IF a < 0 THEN -a ELSE a
           y == IF b < 0 THEN -b ELSE b
       IN IF (a < 0) = (b < 0) THEN x > INT_MAX \div y
          ELSE (-x) < ((INT_MIN + y) - 1) \div y

(* the product modulo 2^32, computed on 16-bit halves and 8-bit quarters *)
wrapping_mul(a, b) ==
  LET la == a % 65536
      ha == (a \div 65536) % 65536
      lb == b % 65536
      hb == (b \div 65536) % 65536
      low(x, y) == ((x % 256) * y + ((((x \div 256) * y) % 256) * 256)) % 65536
      carry(x, y) == ((x % 256) * y + ((((x \div 256) * y) % 256) * 256)) \div 65536
                       + ((x \div 256) * y) \div 256
      lo == low(la, lb)
      hi == (carry(la, lb) + low(ha, lb) + low(la, hb)) % 65536
  IN IF hi >= 32768 THEN (hi - 65536) * 65536 + lo ELSE hi * 65536 + lo

(* i32 division truncates toward zero; not evaluated for INT_MIN / -1 *)
trunc_div(a, b) ==
  LET pos(x, y) == IF x < 0 /\ x % y # 0 THEN (x \div y) + 1 ELSE x \div y
  IN IF b > 0 THEN pos(a, b)
     ELSE IF b = INT_MIN THEN (IF a = INT_MIN THEN 1 ELSE 0)
     ELSE -pos(a, -b)

div_fatal(a, b) == a = INT_MIN /\ b = -1

(***************************************************************************)
(* Natural numbers beyond 32 bits, as sequences of digits in base 2^15,    *)
(* least significant first and without leading zeros (0 is the empty       *)
(* sequence)                                                               *)
(***************************************************************************)

BnBits == 15
BnBase == 2 ^ BnBits

RECURSIVE bn(_)
bn(n) == IF n = 0 THEN <<>> ELSE <<n % BnBase>> \o bn(n \div BnBase)

(* |d| for an i32 d; |INT_MIN| = 2^31 = 2 * 2^30 *)
bn_abs(d) == IF d = INT_MIN THEN <<0, 0, 2>> ELSE bn(IF d < 0 THEN -d ELSE d)

RECURSIVE bn_norm(_)
bn_norm(a) == IF a # <<>> /\ a[Len(a)] = 0 THEN bn_norm(SubSeq(a, 1, Len(a) - 1)) ELSE a

bn_digit(a, i) == IF i >= 1 /\ i <= Len(a) THEN a[i] ELSE 0

RECURSIVE bn_add_from(_, _, _, _)
bn_add_from(a, b, i, c) ==
  IF i > Len(a) /\ i > Len(b) THEN (IF c = 0 THEN <<>> ELSE <<c>>)
  ELSE LET s == bn_digit(a, i) + bn_digit(b, i) + c
       IN <<s % BnBase>> \o bn_add_from(a, b, i + 1, s \div BnBase)

bn_add(a, b) == bn_add_from(a, b, 1, 0)

(* a - b for a >= b *)
RECURSIVE bn_sub_from(_, _, _, _)
bn_sub_from(a, b, i, c) ==
  IF i > Len(a) THEN <<>>
  ELSE LET s == (bn_digit(a, i) - bn_digit(b, i)) - c
       IN <<s % BnBase>> \o bn_sub_from(a, b, i + 1, IF s < 0 THEN 1 ELSE 0)

bn_sub(a, b) == bn_norm(bn_sub_from(a, b, 1, 0))

(* a <= b, decided at the highest digit in which they differ *)
RECURSIVE bn_le_from(_, _, _)
bn_le_from(a, b, i) ==
  IF i = 0 THEN TRUE
  ELSE IF a[i] # b[i] THEN a[i] < b[i]
  ELSE bn_le_from(a, b, i - 1)

bn_le(a, b) ==
  IF Len(a) # Len(b) THEN Len(a) < Len(b) ELSE bn_le_from(a, b, Len(a))

(* a * m for a digit m *)
RECURSIVE bn_scale_from(_, _, _, _)
bn_scale_from(a, m, i, c) ==
  IF i > Len(a) THEN (IF c = 0 THEN <<>> ELSE <<c>>)
  ELSE LET s == a[i] * m + c
       IN <<s % BnBase>> \o bn_scale_from(a, m, i + 1, s \div BnBase)

bn_scale(a, m) == IF m = 0 THEN <<>> ELSE bn_scale_from(a, m, 1, 0)

(* a * BnBase^n *)
bn_up(a, n) == IF a = <<>> THEN a ELSE [i \in 1..n |-> 0] \o a

RECURSIVE bn_mul_from(_, _, _)
bn_mul_from(a, b, i) ==
  IF i > Len(b) THEN <<>>
  ELSE bn_add(bn_up(bn_scale(a, b[i]), i - 1), bn_mul_from(a, b, i + 1))

bn_mul(a, b) == bn_mul_from(a, b, 1)

(* floor(a / n) and a % n for 1 <= n <= 2 * BnBase, by long division from the
   highest digit; bn_rems lists the running remainders, the one before digit i
   at Len(a) + 1 - i *)
RECURSIVE bn_rems(_, _, _)
bn_rems(a, n, i) ==
  IF i > Len(a) THEN <<0>>
  ELSE LET prev == bn_rems(a, n, i + 1)
       IN Append(prev, (prev[Len(prev)] * BnBase + a[i]) % n)

bn_div(a, n) ==
  LET R == bn_rems(a, n, 1)
      L == Len(a)
  IN [quot |-> bn_norm([i \in 1..L |-> (R[(L + 1) - i] * BnBase + a[i]) \div n]),
      rem |-> R[L + 1]]

(* a * 2^s and floor(a / 2^s) *)
bn_shl(a, s) == bn_up(bn_scale(a, 2 ^ (s % BnBits)), s \div BnBits)
bn_shr(a, s) ==
  IF s \div BnBits >= Len(a) THEN <<>>
  ELSE bn_div(SubSeq(a, (s \div BnBits) + 1, Len(a)), 2 ^ (s % BnBits)).quot

(* the number of binary digits of a, and its binary digit i (the lowest is 1) *)
RECURSIVE bits_of(_)
bits_of(n) == IF n = 0 THEN 0 ELSE 1 + bits_of(n \div 2)

bn_len(a) == IF a = <<>> THEN 0 ELSE BnBits * (Len(a) - 1) + bits_of(a[Len(a)])
bn_bit(a, i) ==
  IF i < 1 THEN 0
  ELSE (bn_digit(a, ((i - 1) \div BnBits) + 1) \div (2 ^ ((i - 1) % BnBits))) % 2

(* largest k with k * k <= a, found bit by bit from the top: bn_isqrt_upto gives
   the bits from the highest down to bit i, bn_isqrt_bit adds bit i to the bits
   k found above it *)
bn_isqrt_try(a, k, t) == IF bn_le(bn_mul(t, t), a) THEN t ELSE k
bn_isqrt_bit(a, k, i) == bn_isqrt_try(a, k, bn_add(k, bn_shl(<<1>>, i - 1)))

RECURSIVE bn_isqrt_upto(_, _)
bn_isqrt_upto(a, i) ==
  IF i > (bn_len(a) + 1) \div 2 THEN <<>>
  ELSE CHOOSE r \in {bn_isqrt_bit(a, k, i) : k \in {bn_isqrt_upto(a, i + 1)}} : TRUE

bn_isqrt(a) == bn_isqrt_upto(a, 1)

(* the value of a below 2^31, and INT_MAX from there on: (f64) as i32 saturates *)
bn_as_i32(a) ==
  IF bn_len(a) > 31 THEN INT_MAX
  ELSE bn_digit(a, 1) + BnBase * (bn_digit(a, 2) + BnBase * bn_digit(a, 3))

(***************************************************************************)
(* f64: 53 significant bits, every operation rounded to nearest, ties to   *)
(* even                                                                    *)
(***************************************************************************)

(* m, or m + 1 when the part cut off below m is more than a half (half and low),
   or exactly a half and m is odd *)
f64_nearest(m, half, low) ==
  IF half /\ (low \/ bn_bit(m, 1) = 1) THEN bn_add(m, <<1>>) ELSE m

(* a / 2^s rounded to a natural number; sticky: a non-zero rest lies below a *)
f64_round(a, s, sticky) ==
  f64_nearest(bn_shr(a, s), bn_bit(a, s) = 1,
              sticky \/ bn_shl(bn_shr(a, s - 1), s - 1) # a)

(* the f64 nearest to the natural number a, itself a natural number *)
f64_cut(a, s) == IF s <= 0 THEN a ELSE bn_shl(f64_round(a, s, FALSE), s)
f64_of(a) == f64_cut(a, bn_len(a) - 53)

(* (var / ct).sqrt() as i32 for the f64 var holding the natural number v and
   ct >= 1.  With b the number of bits of floor(v / ct), the quotient is the f64
   q = m * 2^(b - 53), m being v * 2^54 / ct rounded to 53 bits.  With
   k = floor(sqrt(q)) and e the number of bits of k, the f64 below k + 1 is
   k + 1 - 2^(e - 53), so that sqrt(q) rounds to k + 1 exactly when
   ((k + 1)^2 - q) * 2^(53 - e) <= k.  A quotient below 1 has a root below 1. *)
f64_sqrt_pick(k, k1, gap) == IF bn_le(gap, k) THEN bn_as_i32(k1) ELSE bn_as_i32(k)

f64_sqrt_gap(b, m, k, e, k1) ==
  f64_sqrt_pick(k, k1, bn_sub(bn_shl(bn_mul(k1, k1), 53 - e), bn_shl(m, b - e)))

f64_sqrt_floor(b, m, k) == f64_sqrt_gap(b, m, k, bn_len(k), bn_add(k, <<1>>))

f64_sqrt_q(b, m) ==
  f64_sqrt_floor(b, m, bn_isqrt(IF b >= 53 THEN bn_shl(m, b - 53) ELSE bn_shr(m, 53 - b)))

f64_div_round(b, w) ==
  IF b = 0 THEN 0 ELSE f64_sqrt_q(b, f64_round(w.quot, b + 1, w.rem # 0))

f64_sqrt_div(v, ct) == f64_div_round(bn_len(bn_div(v, ct).quot), bn_div(bn_shl(v, 54), ct))

(***************************************************************************)
(* calc (main.rs 128-295) and the range functions (operations.rs)          *)
(***************************************************************************)

(* the cells in the order the loops  for i in x1..x2+1 { for j in y1..y2+1 } visit them *)
rect_order(c1, c2) ==
  LET W == (col_of(c2) - col_of(c1)) + 1
      H == (row_of(c2) - row_of(c1)) + 1
  IN [n \in 1..(W * H) |->
        (col_of(c1) + ((n - 1) \div H)) + ((row_of(c1) + ((n - 1) % H)) - 1) * len_h]

(* ans += data_base[..] along the scan: the wrapped total and whether a step overflowed *)
RECURSIVE scan_sum(_, _, _, _, _)
scan_sum(order, i, db, ans, over) ==
  IF i > Len(order) THEN [val |-> ans, overflow |-> over]
  ELSE scan_sum(order, i + 1, db, wrapping_add(ans, db[order[i]]),
                over \/ add_over(ans, db[order[i]]))

(* a variant that looks at the first corner only, against which the error of a
   range is shown to be the OR over every scanned cell *)
range_err_corner(c1, c2, er) == er[c1]

range_err(c1, c2, er) == \E k \in rect(c1, c2) : er[k]

range_min(c1, c2, db) ==
  LET R == rect(c1, c2) IN
  IF R = {} THEN INT_MAX ELSE CHOOSE v \in {db[k] : k \in R} : \A k \in R : v <= db[k]

range_max(c1, c2, db) ==
  LET R == rect(c1, c2) IN
  IF R = {} THEN INT_MIN ELSE CHOOSE v \in {db[k] : k \in R} : \A k \in R : v >= db[k]

range_sum(c1, c2, db) == scan_sum(rect_order(c1, c2), 1, db, 0, FALSE)

(* ans / ct *)
range_avg(c1, c2, db) ==
  LET s == range_sum(c1, c2, db)
  IN [val |-> trunc_div(s.val, Cardinality(rect(c1, c2))), overflow |-> s.overflow]

(* (d as f64) * (d as f64) for an i32 d *)
f64_square(d) == f64_of(bn_mul(d, d))

(* var += (x - mean) as f64 * (x - mean) as f64 over the first i cells of the
   scan: every product and every partial sum is rounded to f64 *)
RECURSIVE scan_var(_, _, _, _)
scan_var(order, i, db, mean) ==
  IF i = 0 THEN <<>>
  ELSE f64_of(bn_add(scan_var(order, i - 1, db, mean),
                     f64_square(bn_abs(wrapping_sub(db[order[i]], mean)))))

(* var as above; var /= ct as f64; var.sqrt() as i32 *)
stdev_about(order, mean, db) ==
  [val |-> f64_sqrt_div(scan_var(order, Len(order), db, mean.val), Len(order)),
   overflow |-> mean.overflow \/ \E i \in 1..Len(order) : sub_over(db[order[i]], mean.val)]

(* mean = ans / ct, then the scan of the squares *)
range_stdev(c1, c2, db) == stdev_about(rect_order(c1, c2), range_avg(c1, c2, db), db)

(* the operands of a subtraction taken in the other order, against which the
   operand order of the arithmetic arms is shown to matter *)
arith_swapped(o, a, b) ==
  CASE o = "A" -> wrapping_add(b, a)
    [] o = "S" -> wrapping_sub(b, a)
    [] o = "M" -> wrapping_mul(b, a)
    [] o = "D" -> trunc_div(a, b)

arith(o, a, b) ==
  CASE o = "A" -> wrapping_add(a, b)
    [] o = "S" -> wrapping_sub(a, b)
    [] o = "M" -> wrapping_mul(a, b)
    [] o = "D" -> trunc_div(a, b)

arith_over(o, a, b) ==
  CASE o = "A" -> add_over(a, b)
    [] o = "S" -> sub_over(a, b)
    [] o = "M" -> mul_over(a, b)
    [] o = "D" -> FALSE

(* a variant that stores 0 on a division by zero, against which the property of
   the stale value is shown to depend on the guard  if divisor != 0 *)
stored_value_zeroed(prev, o, a, b) == IF o = "D" /\ b = 0 THEN 0 ELSE arith(o, a, b)

(* what database[cell] holds after an arithmetic arm: the divide arms assign the
   quotient only under  if divisor != 0  *)
stored_value(prev, o, a, b) ==
  IF o = "D" /\ (b = 0 \/ div_fatal(a, b)) THEN prev ELSE arith(o, a, b)

(* the sixteen arithmetic arms *)
calc_arith(cell, db, er, op) ==
  LET code == op.opcpde
      a == IF code[1] = "C" THEN db[op.cell1] ELSE op.cell1
      b == IF code[2] = "C" THEN db[op.cell2] ELSE op.cell2
      isdiv == code[3] = "D"
      operr == (code[1] = "C" /\ er[op.cell1]) \/ (code[2] = "C" /\ er[op.cell2])
      newerr ==
        IF code[1] = "V" /\ code[2] = "V" /\ ~isdiv
        THEN er[cell]                      \* VVA, VVS, VVM leave err[cell] alone
        ELSE operr \/ (isdiv /\ b = 0)
  IN [database |-> [db EXCEPT ![cell] = stored_value(db[cell], code[3], a, b)],
      err |-> [er EXCEPT ![cell] = newerr],
      overflow |-> arith_over(code[3], a, b),
      fatal |-> isdiv /\ b # 0 /\ div_fatal(a, b)]

(* database[cell] = v; err[cell] = e; *)
store(cell, db, er, v, e) ==
  [database |-> [db EXCEPT ![cell] = v], err |-> [er EXCEPT ![cell] = e],
   overflow |-> FALSE, fatal |-> FALSE]

(* variants of the assignment and sleep arms, against which their properties are
   shown to depend on the writes of err and on the test of the source's error *)
calc_eqv_keeping_err(cell, db, er, op) == store(cell, db, er, op.cell1, er[cell])
calc_slc_unguarded(cell, db, er, op) == store(cell, db, er, db[op.cell1], er[op.cell1])

(* "EQC", "EQV", "SLV", "SLC" *)
calc_eqc(cell, db, er, op) == store(cell, db, er, db[op.cell1], er[op.cell1])
calc_eqv(cell, db, er, op) == store(cell, db, er, op.cell1, FALSE)
calc_slv(cell, db, er, op) == store(cell, db, er, op.cell1, FALSE)
calc_slc(cell, db, er, op) ==
  IF er[op.cell1] THEN store(cell, db, er, db[cell], TRUE)
  ELSE store(cell, db, er, db[op.cell1], FALSE)

(* database, err: the stores calc leaves; overflow: an i32 operation of this calc
   overflowed; fatal: this calc aborts the process in every build *)
calc(cell, db, er, ops) ==
  LET op == ops[cell]
      code == op.opcpde
      yn == range_err(op.cell1, op.cell2, er)
      agg(r) == [store(cell, db, er, r.val, yn) EXCEPT !.overflow = r.overflow]
  IN CASE code \in ArithCodes -> calc_arith(cell, db, er, op)
       [] code = EQC -> calc_eqc(cell, db, er, op)
       [] code = EQV -> calc_eqv(cell, db, er, op)
       [] code = <<"M","I","N">> -> store(cell, db, er, range_min(op.cell1, op.cell2, db), yn)
       [] code = <<"M","A","X">> -> store(cell, db, er, range_max(op.cell1, op.cell2, db), yn)
       [] code = <<"M","E","A">> -> agg(range_avg(op.cell1, op.cell2, db))
       [] code = <<"S","U","M">> -> agg(range_sum(op.cell1, op.cell2, db))
       [] code = <<"S","T","D">> -> agg(range_stdev(op.cell1, op.cell2, db))
       [] code = SLV -> calc_slv(cell, db, er, op)
       [] code = SLC -> calc_slc(cell, db, er, op)
       [] OTHER -> [database |-> db, err |-> er, overflow |-> FALSE, fatal |-> FALSE]

(* val_update: calc on topo_arr[1..=topo_arr[0]], in order, until a calc is fatal *)
RECURSIVE val_update(_, _, _, _, _, _)
val_update(topo_arr, i, db, er, ops, over) ==
  IF i > topo_arr[0] THEN [database |-> db, err |-> er, overflow |-> over, fatal |-> FALSE]
  ELSE LET r == calc(topo_arr[i], db, er, ops)
       IN IF r.fatal THEN [database |-> db, err |-> er, overflow |-> over, fatal |-> TRUE]
          ELSE val_update(topo_arr, i + 1, r.database, r.err, ops, over \/ r.overflow)


(***************************************************************************)
(* topo_sort (toposort.rs 14-74)                                           *)
(***************************************************************************)

(* the discovery loop without its test c == cell: a variant that never reports a
   cycle, against which the rejection properties are shown to depend on that test *)
RECURSIVE bfs_scan_blind(_, _, _, _, _)
bfs_scan_blind(lst, i, cell, q, ind) ==
  IF i > Len(lst) THEN [q |-> q, indegree |-> ind, is_cycle |-> 0]
  ELSE LET c == lst[i] IN
       bfs_scan_blind(lst, i + 1, cell,
                      IF ind[c] = 0 THEN Append(q, c) ELSE q,
                      [ind EXCEPT ![c] = @ + 1])

(* the discovery loop without its test indegree[c] == 0: a variant that enqueues
   a node every time it is met, against which termination is shown to depend on
   that test *)
RECURSIVE bfs_scan_repush(_, _, _, _, _)
bfs_scan_repush(lst, i, cell, q, ind) ==
  IF i > Len(lst) THEN [q |-> q, indegree |-> ind, is_cycle |-> 0]
  ELSE LET c == lst[i] IN
       IF c = cell THEN [q |-> q, indegree |-> ind, is_cycle |-> 1]
       ELSE bfs_scan_repush(lst, i + 1, cell, Append(q, c), [ind EXCEPT ![c] = @ + 1])

(* for c in &adj[node] of the discovery loop, from position i *)
RECURSIVE bfs_scan(_, _, _, _, _)
bfs_scan(lst, i, cell, q, ind) ==
  IF i > Len(lst) THEN [q |-> q, indegree |-> ind, is_cycle |-> 0]
  ELSE LET c == lst[i] IN
       IF c = cell THEN [q |-> q, indegree |-> ind, is_cycle |-> 1]
       ELSE bfs_scan(lst, i + 1, cell,
                     IF ind[c] = 0 THEN Append(q, c) ELSE q,
                     [ind EXCEPT ![c] = @ + 1])

(* while !q.is_empty() { if is_cycle == 1 {break}; node = pop_front; ct += 1; .. } *)
RECURSIVE bfs(_, _, _, _, _, _)
bfs(adj, cell, q, ind, ct, is_cycle) ==
  IF q = <<>> \/ is_cycle = 1
  THEN [q |-> q, indegree |-> ind, ct |-> ct, is_cycle |-> is_cycle]
  ELSE LET s == bfs_scan(adj[Head(q)], 1, cell, Tail(q), ind)
       IN bfs(adj, cell, s.q, s.indegree, ct + 1, s.is_cycle)

(* the revert walk without its push: a variant that zeroes only what the start
   node points at, against which the clean-up property is shown to need the walk *)
RECURSIVE revert_scan_shallow(_, _, _, _, _)
revert_scan_shallow(lst, i, cell, q, ind) ==
  IF i > Len(lst) THEN [q |-> q, indegree |-> ind]
  ELSE LET c == lst[i] IN
       IF c = cell THEN [q |-> q, indegree |-> ind]
       ELSE revert_scan_shallow(lst, i + 1, cell, q, [ind EXCEPT ![c] = 0])

(* the inner loop of the revert walk *)
RECURSIVE revert_scan(_, _, _, _, _)
revert_scan(lst, i, cell, q, ind) ==
  IF i > Len(lst) THEN [q |-> q, indegree |-> ind]
  ELSE LET c == lst[i] IN
       IF c = cell THEN [q |-> q, indegree |-> ind]
       ELSE revert_scan(lst, i + 1, cell,
                        IF ind[c] > 0 THEN Append(q, c) ELSE q,
                        [ind EXCEPT ![c] = 0])

RECURSIVE revert(_, _, _, _)
revert(adj, cell, q, ind) ==
  IF q = <<>> THEN ind
  ELSE LET s == revert_scan(adj[Head(q)], 1, cell, Tail(q), ind)
       IN revert(adj, cell, s.q, s.indegree)

(* Kahn's inner loop without the store of the decrement: a variant that leaves
   the counts of the discovery walk in place, against which the completeness of
   the returned order is shown to depend on the matching decrements *)
RECURSIVE kahn_scan_keep(_, _, _, _)
kahn_scan_keep(lst, i, q, ind) ==
  IF i > Len(lst) THEN [q |-> q, indegree |-> ind]
  ELSE LET c == lst[i]
           d == ind[c] - 1
       IN kahn_scan_keep(lst, i + 1, IF d = 0 THEN Append(q, c) ELSE q, ind)

(* the inner loop of Kahn's algorithm *)
RECURSIVE kahn_scan(_, _, _, _)
kahn_scan(lst, i, q, ind) ==
  IF i > Len(lst) THEN [q |-> q, indegree |-> ind]
  ELSE LET c == lst[i]
           d == ind[c] - 1
       IN kahn_scan(lst, i + 1, IF d = 0 THEN Append(q, c) ELSE q, [ind EXCEPT ![c] = d])

RECURSIVE kahn(_, _, _, _, _)
kahn(adj, q, ind, res, leng) ==
  IF q = <<>> THEN [res |-> res, indegree |-> ind]
  ELSE LET node == Head(q)
           s == kahn_scan(adj[node], 1, Tail(q), ind)
       IN kahn(adj, s.q, s.indegree, [res EXCEPT ![leng] = node], leng + 1)

(* res is the returned Vec<i32>, indexed from 0; indegree is the workspace on return *)
topo_sort(adj, cell, indeg) ==
  LET a == bfs(adj, cell, <<cell>>, indeg, 1, 0)
      res0 == [i \in 0..(a.ct - 1) |-> 0]
      q == Append(a.q, cell)
  IN IF a.is_cycle = 1
     THEN [res |-> [res0 EXCEPT ![0] = -1], indegree |-> revert(adj, cell, q, a.indegree)]
     ELSE kahn(adj, q, a.indegree, [res0 EXCEPT ![0] = a.ct - 1], 1)

(***************************************************************************)
(* cell_update (main.rs 330-671)                                           *)
(***************************************************************************)

last(s) == s[Len(s)]

(* Vec::retain(|&x| x != target) on sensi[k] *)
retain_ne(S, k, t) == [S EXCEPT ![k] = SelectSeq(@, LAMBDA x : x # t)]
retain_ne_all(S, K, t) == [k \in DOMAIN S |-> IF k \in K THEN SelectSeq(S[k], LAMBDA x : x # t) ELSE S[k]]

(* a push without the test on the last entry: a variant against which the
   one-entry-per-reader property is shown to depend on that test *)
push_always(S, k, t) == [S EXCEPT ![k] = Append(@, t)]

(* if sensi[k].is_empty() || *sensi[k].last().unwrap() != target { sensi[k].push(target) } *)
push_unless_last(S, k, t) ==
  IF S[k] = <<>> \/ last(S[k]) # t THEN [S EXCEPT ![k] = Append(@, t)] ELSE S

push_all(S, K, t) == [k \in DOMAIN S |-> IF k \in K THEN Append(S[k], t) ELSE S[k]]

(* Vec::pop: drops the last entry, nothing on an empty list *)
pop(s) == IF s = <<>> THEN s ELSE SubSeq(s, 1, Len(s) - 1)
pop_all(S, K) == [k \in DOMAIN S |-> IF k \in K THEN pop(S[k]) ELSE S[k]]

(* if let Some(first) = sensi[k].first() { if *first == target { sensi[k].pop(); } } *)
pop_if_first(S, k, t) ==
  IF S[k] # <<>> /\ Head(S[k]) = t THEN [S EXCEPT ![k] = pop(@)] ELSE S

(* the removal without the set difference: a variant that takes the target out of
   the whole previous rectangle also when the new code is a range code, against
   which the frame of a range-to-range edit is shown to depend on the difference *)
remove_old_whole(S, t, old, new) ==
  LET s1 == IF starts_with_C(old.opcpde) THEN retain_ne(S, old.cell1, t) ELSE S
      s2 == IF nth1_is_C(old.opcpde) THEN retain_ne(s1, old.cell2, t) ELSE s1
      s3 == IF old.opcpde = EQC THEN retain_ne(s2, old.cell1, t) ELSE s2
      s4 == IF old.opcpde = SLC THEN retain_ne(s3, old.cell1, t) ELSE s3
  IN IF is_range(old.opcpde) THEN retain_ne_all(s4, rect(old.cell1, old.cell2), t) ELSE s4

(* lines 361-423: removing older values from the sensitivity lists *)
remove_old(S, t, old, new) ==
  LET s1 == IF starts_with_C(old.opcpde) THEN retain_ne(S, old.cell1, t) ELSE S
      s2 == IF nth1_is_C(old.opcpde) THEN retain_ne(s1, old.cell2, t) ELSE s1
      s3 == IF old.opcpde = EQC THEN retain_ne(s2, old.cell1, t) ELSE s2
      s4 == IF old.opcpde = SLC THEN retain_ne(s3, old.cell1, t) ELSE s3
  IN IF is_range(old.opcpde)
     THEN IF is_range(new.opcpde)
          THEN retain_ne_all(s4, rect_minus(old.cell1, old.cell2, new.cell1, new.cell2), t)
          ELSE retain_ne_all(s4, rect(old.cell1, old.cell2), t)
     ELSE s4

(* lines 425-498 (with new = the edit, old = rev) and 583-658 (with the roles
   swapped: adding back the older values) *)
add_edges(S, t, new, old) ==
  LET s1 == IF starts_with_C(new.opcpde) THEN push_unless_last(S, new.cell1, t) ELSE S
      s2 == IF nth1_is_C(new.opcpde) THEN push_unless_last(s1, new.cell2, t) ELSE s1
      s3 == IF new.opcpde = EQC THEN push_unless_last(s2, new.cell1, t) ELSE s2
      s4 == IF new.opcpde = SLC THEN push_unless_last(s3, new.cell1, t) ELSE s3
  IN IF is_range(new.opcpde)
     THEN IF is_range(old.opcpde)
          THEN push_all(s4, rect_minus(new.cell1, new.cell2, old.cell1, old.cell2), t)
          ELSE push_all(s4, rect(new.cell1, new.cell2), t)
     ELSE s4

(* lines 503-581: removing the edit's items again after a cycle *)
undo_add(S, t, new, old) ==
  LET s1 == IF starts_with_C(new.opcpde) THEN pop_if_first(S, new.cell1, t) ELSE S
      s2 == IF nth1_is_C(new.opcpde) THEN pop_if_first(s1, new.cell2, t) ELSE s1
      s3 == IF new.opcpde = EQC THEN pop_if_first(s2, new.cell1, t) ELSE s2
      s4 == IF new.opcpde = SLC THEN pop_if_first(s3, new.cell1, t) ELSE s3
  IN IF is_range(new.opcpde)
     THEN IF is_range(old.opcpde)
          THEN pop_all(s4, rect_minus(new.cell1, new.cell2, old.cell1, old.cell2))
          ELSE pop_all(s4, rect(new.cell1, new.cell2))
     ELSE s4

(* a rollback that leaves the edit's operation installed: a variant against which
   the restoration property is shown to depend on lines 660-664 *)
restore_ops_skip(ops, t, old) == ops

(* lines 660-664 *)
restore_ops(ops, t, old) == [ops EXCEPT ![t] = old]

(* the copy into opers with the target taken as a 0-based index: a variant that
   writes one slot too low, against which the sentinel property is shown to
   depend on the 1-based index of the target *)
install_ops_zero_based(ops, t, new) == [ops EXCEPT ![t - 1] = new]

(* lines 347-359 *)
install_ops(ops, t, new) == [ops EXCEPT ![t] = new]

(* the sequence of cells calc is invoked on by val_update *)
calc_order(topo) == [i \in 1..topo[0] |-> topo[i]]

(* whether the process aborts: always after a fatal calc, in a build that checks
   overflow after an overflowing one, never otherwise *)
panic_outcomes(overflow, fatal) ==
  IF fatal THEN {TRUE} ELSE IF overflow THEN {TRUE, FALSE} ELSE {FALSE}

(* the whole of cell_update: the stores on return and the value returned *)
update(t, code, c1, c2) ==
  LET old == opers[t]
      new == Ops(code, c1, c2)
      ops1 == install_ops(opers, t, new)
      sens1 == add_edges(remove_old(sensi, t, old, new), t, new, old)
      ts == topo_sort(sens1, t, indegree)
      topo == ts.res
  IN IF topo[0] = -1
     THEN [sensi |-> add_edges(undo_add(sens1, t, new, old), t, old, new),
           opers |-> restore_ops(ops1, t, old),
           database |-> database, err |-> err,
           indegree |-> ts.indegree, calc_seq |-> <<>>, rev |-> old, ret |-> 0,
           topo |-> topo,
           overflow |-> FALSE, fatal |-> FALSE]
     ELSE LET v == val_update(topo, 1, database, err, ops1, FALSE) IN
          [sensi |-> sens1, opers |-> ops1,
           database |-> v.database, err |-> v.err,
           indegree |-> ts.indegree, calc_seq |-> calc_order(topo), rev |-> old, ret |-> 1,
           topo |-> topo,
           overflow |-> v.overflow, fatal |-> v.fatal]

cell_update(t, code, c1, c2) ==
  \E u \in {update(t, code, c1, c2)} :
  /\ sensi' = u.sensi
  /\ opers' = u.opers
  /\ database' = u.database
  /\ err' = u.err
  /\ indegree' = u.indegree
  /\ calc_seq' = u.calc_seq
  /\ topo_vec' = u.topo
  /\ rev' = u.rev
  /\ \E p \in panic_outcomes(u.overflow, u.fatal) :
       /\ panicked' = p
       /\ ret' = IF p THEN -2 ELSE u.ret
  /\ inp_arr' = [target |-> t, opcpde |-> code, cell1 |-> c1, cell2 |-> c2]
  /\ n_edits' = n_edits + 1
  /\ UNCHANGED <<len_h, len_v, curr_h, curr_v, coord, frame>>

(***************************************************************************)
(* Edit requests the validator lets through (input.rs check_err)           *)
(***************************************************************************)

is_valid_range(c1, c2) ==
  /\ c1 \in Cells /\ c2 \in Cells
  /\ ~(row_of(c1) > row_of(c2) \/ col_of(c1) > col_of(c2))

operand1(code) ==
  IF code \in RangeCodes \/ code \in {EQC, SLC} \/ starts_with_C(code) THEN Cells ELSE Lits

operand2(code, c1) ==
  IF code \in RangeCodes THEN {c \in Cells : is_valid_range(c1, c)}
  ELSE IF code \in {EQC, EQV, SLC, SLV} THEN {NoOperand}
  ELSE IF nth1_is_C(code) THEN Cells ELSE Lits

(* no topo_sort call is being followed: the call runs within one cell_update step *)
no_frame == [pc |-> "none"]

(* the state non_ui builds before its first prompt, for a grid of h columns, v rows *)
fresh(h, v) ==
  /\ len_h = h
  /\ len_v = v
  /\ database = [k \in 0..(h * v) |-> 0]
  /\ err = [k \in 0..(h * v) |-> FALSE]
  /\ opers = [k \in 0..(h * v) |-> Ops(<<>>, -1, -1)]
  /\ indegree = [k \in 0..(h * v) |-> 0]
  /\ sensi = [k \in 0..(h * v) |-> <<>>]
  /\ ret = -1
  /\ inp_arr = [target |-> 0, opcpde |-> <<>>, cell1 |-> -1, cell2 |-> -1]
  /\ rev = Ops(<<>>, -1, -1)
  /\ calc_seq = <<>>
  /\ panicked = FALSE
  /\ curr_h = 1
  /\ curr_v = 1
  /\ coord = 0
  /\ n_edits = 0
  /\ topo_vec = <<>>
  /\ frame = no_frame
  /\ out = <<>>

(* one call of cell_update, accepted or rejected, with a code of CodeSet *)
Edit(CodeSet, Max) ==
  /\ ~panicked
  /\ n_edits < Max
  /\ \E t \in Cells, code \in CodeSet :
       \E c1 \in operand1(code) :
         \E c2 \in operand2(code, c1) :
           cell_update(t, code, c1, c2) /\ UNCHANGED out

(* a row of three cells edited with assignments and additions *)
RowCodes == {EQV, EQC, <<"C","C","A">>}
EditRow == len_v = 1 /\ Edit(RowCodes, MaxEdits)

(* a 2 x 2 square edited with assignments, a delay, a division and range sums *)
SquareCodes == {EQV, EQC, SLC, <<"V","V","D">>, <<"S","U","M">>}
EditSquare == len_v = 2 /\ Edit(SquareCodes, MaxSquareEdits)

Init == fresh(3, 1) \/ fresh(2, 2)
Next == EditRow \/ EditSquare
Spec == Init /\ [][Next]_vars

(* a column of three cells (columns = 1) edited with assignments and range sums *)
ColumnCodes == {EQV, EQC, <<"S","U","M">>}
InitColumn == fresh(1, 3)
NextColumn == Edit(ColumnCodes, MaxColumnEdits)
SpecColumn == InitColumn /\ [][NextColumn]_vars

(* a row of three cells edited with additions of cells and divisions of literals,
   the smallest family in which an error has readers *)
MaxErrEdits == 4
ErrCodes == {EQC, <<"C","C","A">>, <<"V","V","D">>}
InitErr == fresh(3, 1)
NextErr == Edit(ErrCodes, MaxErrEdits)
SpecErr == InitErr /\ [][NextErr]_vars

(* non_ui, "scroll_to <cell>" (lines 746-755): the cell's packed coordinate
   col * 1000 + row goes through int_to_ind to a linear index, which is decoded
   to the column and row of the top-left corner of the view *)
MaxScrollCols == 6
MaxScrollRows == 8

scroll_to(col, row) ==
  /\ ~panicked
  /\ col \in 1..len_h /\ row \in 1..len_v
  /\ coord' = col * 1000 + row
  /\ \E t \in {int_to_ind(col * 1000 + row, len_h)} :
       /\ curr_h' = col_of(t)
       /\ curr_v' = row_of(t)
  /\ UNCHANGED <<database, err, opers, sensi, indegree, len_h, len_v, ret, inp_arr,
                 rev, calc_seq, panicked, n_edits, topo_vec, frame, out>>

InitScroll == \E h \in 1..MaxScrollCols, v \in 1..MaxScrollRows : fresh(h, v)
NextScroll == \E col \in 1..MaxScrollCols, row \in 1..MaxScrollRows : scroll_to(col, row)
SpecScroll == InitScroll /\ [][NextScroll]_vars

(***************************************************************************)
(* calc on its own: the last step of an accepted cell_update whose target  *)
(* has no readers (topo = [1, target]).  The sheet is taken at line 668:   *)
(* the new operation is installed, its edges are added, and every other    *)
(* cell holds a literal (clean, EQV) or a failed division (in error, with  *)
(* the value it had before the division).                                  *)
(***************************************************************************)

AllCodes == ArithCodes \cup RangeCodes \cup {EQV, EQC, SLV, SLC}

(* operands of the target's operation: cells among srcs, literals among lits *)
calc_operand1(code, srcs, lits) ==
  IF code \in RangeCodes \/ code \in {EQC, SLC} \/ starts_with_C(code) THEN srcs ELSE lits

calc_operand2(code, c1, srcs, lits, w) ==
  IF code \in RangeCodes THEN {c \in srcs : is_valid_range(c1, c) /\ rect(c1, c) \subseteq srcs}
  ELSE IF code \in {EQC, EQV, SLC, SLV} THEN {int_to_ind(0, w)}
  ELSE IF nth1_is_C(code) THEN srcs ELSE lits

(* a grid of h columns and v rows; src gives every cell but t its value and error flag,
   pre gives t's; t has just been given an operation of codes *)
calc_ready(h, v, t, SrcSet, PreSet, codes, lits) ==
  /\ len_h = h
  /\ len_v = v
  /\ \E src \in SrcSet, pre \in PreSet, code \in codes :
       \E c1 \in calc_operand1(code, DOMAIN src, lits) :
         \E c2 \in calc_operand2(code, c1, DOMAIN src, lits, h) :
           LET none == Ops(<<>>, -1, -1)
               held(x) == IF x[2] THEN Ops(<<"V","V","D">>, 1, 0)
                          ELSE Ops(EQV, x[1], int_to_ind(0, h))
               new == Ops(code, c1, c2)
           IN /\ database = [k \in 0..(h * v) |->
                               IF k = t THEN pre[1] ELSE IF k = 0 THEN 0 ELSE src[k][1]]
              /\ err = [k \in 0..(h * v) |->
                          IF k = t THEN pre[2] ELSE IF k = 0 THEN FALSE ELSE src[k][2]]
              /\ opers = [k \in 0..(h * v) |->
                            IF k = t THEN new ELSE IF k = 0 THEN none ELSE held(src[k])]
              /\ sensi = add_edges([k \in 0..(h * v) |-> <<>>], t, new, none)
              /\ rev = held(pre)
              /\ inp_arr = [target |-> t, opcpde |-> code, cell1 |-> c1, cell2 |-> c2]
  /\ indegree = [k \in 0..(h * v) |-> 0]
  /\ ret = -1
  /\ calc_seq = <<>>
  /\ panicked = FALSE
  /\ curr_h = 1
  /\ curr_v = 1
  /\ coord = 0
  /\ n_edits = 0
  /\ topo_vec = [i \in 0..1 |-> IF i = 0 THEN 1 ELSE t]
  /\ frame = no_frame
  /\ out = <<>>

(* val_update(&topo, ..) with topo = [1, target], then the return of cell_update *)
calc_target ==
  /\ ~panicked
  /\ ret = -1
  /\ inp_arr.target \in Cells
  /\ \E r \in {calc(inp_arr.target, database, err, opers)} :
       /\ database' = r.database
       /\ err' = r.err
       /\ \E p \in panic_outcomes(r.overflow, r.fatal) :
            /\ panicked' = p
            /\ ret' = IF p THEN -2 ELSE 1
  /\ calc_seq' = <<inp_arr.target>>
  /\ n_edits' = n_edits + 1
  /\ UNCHANGED <<opers, sensi, indegree, len_h, len_v, inp_arr, rev, curr_h, curr_v, coord,
                 topo_vec, frame, out>>

(* values and literals of the small sheet; the target starts from a value none of them is *)
CalcVals == {-3, 0, 2}
CalcPre == {<<7, FALSE>>, <<7, TRUE>>}

(* a 2 x 2 sheet, the target its last cell *)
InitSmall ==
  calc_ready(2, 2, 4, [1..3 -> CalcVals \X BOOLEAN], CalcPre, AllCodes, CalcVals)

(* a row holding 10, 20, 30, 40, 50 and the target behind it, with a range operation *)
InitRowOfFive ==
  calc_ready(6, 1, 6, {[k \in 1..5 |-> <<10 * k, FALSE>>]}, CalcPre, RangeCodes, CalcVals)

(* three columns and two rows with the target in the last cell, so that a range
   can be a block of two columns and two rows that leaves the third column out *)
BlockSrc == {<<-3, FALSE>>, <<2, FALSE>>, <<2, TRUE>>}
InitBlock ==
  calc_ready(3, 2, 6, [1..5 -> BlockSrc], CalcPre, RangeCodes, CalcVals)

(* a row of three cells holding values of nine digits, with the target behind it
   and a standard deviation over them: the squares of the deviations do not fit
   in the 53 bits of an f64 *)
FarVals == {-102558961, 0, 102558961}
InitFar ==
  calc_ready(4, 1, 4, [1..3 -> FarVals \X {FALSE}], {<<7, FALSE>>}, {<<"S","T","D">>}, CalcVals)

InitCalc == InitSmall \/ InitRowOfFive \/ InitBlock \/ InitFar
NextCalc == calc_target
SpecCalc == InitCalc /\ [][NextCalc]_vars

(* values at and next to the ends of i32 *)
WideVals == {INT_MIN, INT_MIN + 1, -1, 0, 1, 2, INT_MAX}
WideCodes == ArithCodes \cup {EQC, EQV, <<"S","U","M">>, <<"M","E","A">>, <<"M","I","N">>, <<"M","A","X">>}

(* a row of two cells and the target behind it *)
InitWide ==
  calc_ready(3, 1, 3, [1..2 -> WideVals \X {FALSE}], {<<7, FALSE>>}, WideCodes, WideVals)
NextWide == calc_target
SpecWide == InitWide /\ [][NextWide]_vars

(***************************************************************************)
(* A row of four cells A1..D1 edited with a few requests, in any order and *)
(* any number of times: long enough runs for a stale entry to be followed  *)
(***************************************************************************)

MaxRowOfFourEdits == 7

(* A1=B1+C1, A1=D1+A1, A1=D1, B1=B1+C1, C1=D1, C1=1, C1=C1, D1=1: target, code and
   the operands as the parser hands them over *)
RowOfFourRequests ==
  { <<1, <<"C","C","A">>, 2, 3>>, <<1, <<"C","C","A">>, 4, 1>>, <<1, EQC, 4, NoOperand>>,
    <<2, <<"C","C","A">>, 2, 3>>,
    <<3, EQC, 4, NoOperand>>, <<3, EQV, 1, NoOperand>>, <<3, EQC, 3, NoOperand>>,
    <<4, EQV, 1, NoOperand>> }

InitRowOfFour == fresh(4, 1)
NextRowOfFour ==
  /\ ~panicked
  /\ n_edits < MaxRowOfFourEdits
  /\ \E r \in RowOfFourRequests : cell_update(r[1], r[2], r[3], r[4])
  /\ UNCHANGED out
SpecRowOfFour == InitRowOfFour /\ [][NextRowOfFour]_vars

(***************************************************************************)
(* Input lines: the validator (input.rs check_err) and the dispatch of     *)
(* non_ui (main.rs 743-768), on the parsed line help_input hands over      *)
(***************************************************************************)

MaxLabelLetter == 3
MaxLabelRow == 2
MaxInputEdits == 2

(* labels as typed, upper-case letters and then digits: the letters as their
   places in the alphabet, the digits as the number they spell; rows around the
   end of the packed space col * 1000 + row are among them *)
Labels ==
  {[letters |-> w, row |-> r] :
     w \in {<<a>> : a \in 1..MaxLabelLetter} \cup {<<1, 1>>},
     r \in (0..MaxLabelRow) \cup {1000, 1001}}

(* main.rs 63-89: col *= 26; col += diff over the letters, then col * 1000 + row *)
cell_to_int(a) ==
  LET RECURSIVE col_upto(_)
      col_upto(n) == IF n = 0 THEN 0 ELSE col_upto(n - 1) * 26 + a.letters[n]
  IN col_upto(Len(a.letters)) * 1000 + a.row

(* input.rs 70-105, for a label of the shape above (the scan of 72-97 passes) *)
is_valid_cell(cell) ==
  LET k == cell_to_int(cell)
      r == k % 1000
      c == k \div 1000
  IN r <= len_v /\ c <= len_h /\ r > 0 /\ c > 0

(* input.rs 117-130 *)
is_valid_range_of(cell1, cell2) ==
  LET k1 == cell_to_int(cell1)
      r1 == k1 % 1000
      c1 == k1 \div 1000
      k2 == cell_to_int(cell2)
      r2 == k2 % 1000
      c2 == k2 \div 1000
  IN /\ ~(r1 > r2 \/ c1 > c2)
     /\ (r1 <= len_v /\ c1 <= len_h)
     /\ (r2 <= len_v /\ c2 <= len_h)
     /\ (r1 > 0 /\ c1 > 0)
     /\ (r2 > 0 /\ c2 > 0)

(* input.rs 142-210, the branch of a line that is not a scroll_to; output[0..3]
   are o.target, o.opcpde, o.op1, o.op2 *)
check_err(o) ==
  IF Len(o.opcpde) # 3 THEN "Invalid Operation"
  ELSE IF ~is_valid_cell(o.target) THEN "Assigned Cell out of bounds"
  ELSE IF o.opcpde \in {SLC, EQC}
       THEN IF ~is_valid_cell(o.op1) THEN "Invalid Cell" ELSE "ok"
  ELSE IF o.opcpde \in {SLV, EQV} THEN "ok"
  ELSE IF o.opcpde \in RangeCodes
       THEN IF ~is_valid_range_of(o.op1, o.op2) THEN "Invalid Range" ELSE "ok"
  ELSE IF o.opcpde \in ArithCodes
       THEN IF o.opcpde[1] = "C" /\ ~is_valid_cell(o.op1) THEN "Invalid Cell"
            ELSE IF o.opcpde[2] = "C" /\ ~is_valid_cell(o.op2) THEN "Invalid Cell"
            ELSE "ok"
  ELSE "Invalid Operation"

(* one line "X=n", "X=Y" or "X=SUM(Y:Z)" read by non_ui: out is the parsed
   line with its message; cell_update is called when the message is ok, with the
   operands resolved as main.rs 339-359 resolves them.  A line that is turned
   down leaves everything else as it was, and the exploration ends there *)
NextInput ==
  /\ ~panicked
  /\ n_edits < MaxInputEdits
  /\ out # <<>> => out.status = "ok"
  /\ \E target \in Labels, code \in {EQV, EQC, <<"S","U","M">>} :
       \E op1 \in IF code = EQV THEN Lits ELSE Labels :
         \E op2 \in IF code \in {EQV, EQC} THEN {<<>>} ELSE Labels :
           \E o \in {[target |-> target, opcpde |-> code, op1 |-> op1, op2 |-> op2]} :
             /\ out' = [target |-> target, opcpde |-> code, op1 |-> op1, op2 |-> op2,
                        status |-> check_err(o)]
             /\ IF check_err(o) = "ok"
                THEN cell_update(int_to_ind(cell_to_int(target), len_h), code,
                                 IF code = EQV THEN op1
                                 ELSE int_to_ind(cell_to_int(op1), len_h),
                                 IF code \in {EQV, EQC} THEN NoOperand
                                 ELSE int_to_ind(cell_to_int(op2), len_h))
                ELSE UNCHANGED <<database, err, opers, sensi, indegree, len_h, len_v, ret,
                                 inp_arr, rev, calc_seq, panicked, curr_h, curr_v, coord,
                                 n_edits, topo_vec, frame>>
SpecInput == Init /\ [][NextInput]_vars

(***************************************************************************)
(* Sequences of accepted edits only: the calls of cell_update that return 1 *)
(***************************************************************************)

NextAccepted == Next /\ ret' = 1
SpecAccepted == Init /\ [][NextAccepted]_vars

(***************************************************************************)
(* topo_sort on its own: any adjacency structure over a few nodes, the     *)
(* workspace all zero on entry (toposort.rs 14-74)                         *)
(***************************************************************************)

TopoNodes == 3
MaxAdjLen == 3

(* the lists an entry of adj may hold: any nodes, in any order, repeated or not *)
AdjLists(maxlen) == UNION {[1..n -> 1..TopoNodes] : n \in 0..maxlen}

(* let mut q = VecDeque::new(); q.push_back(cell); let mut is_cycle = 0; let mut
   ct = 1 (lines 15-18); dequeued is the history of the pop_front calls of the
   discovery loop *)
entered(cell) ==
  [pc |-> "discover", q |-> <<cell>>, is_cycle |-> 0, ct |-> 1, res |-> <<>>, leng |-> 0,
   dequeued |-> <<>>]

(* the state topo_sort is entered in: any adjacency structure with lists of up
   to maxlen entries, any start cell, the workspace all zero *)
topo_ready(maxlen, followed) ==
  /\ len_h = TopoNodes
  /\ len_v = 1
  /\ sensi \in {adj \in [0..TopoNodes -> AdjLists(maxlen)] : adj[0] = <<>>}
  /\ \E cell \in 1..TopoNodes :
       /\ inp_arr = [target |-> cell, opcpde |-> <<>>, cell1 |-> -1, cell2 |-> -1]
       /\ frame = IF followed THEN entered(cell) ELSE no_frame
  /\ out = <<>>
  /\ indegree = [k \in 0..TopoNodes |-> 0]
  /\ database = [k \in 0..TopoNodes |-> 0]
  /\ err = [k \in 0..TopoNodes |-> FALSE]
  /\ opers = [k \in 0..TopoNodes |-> Ops(<<>>, -1, -1)]
  /\ rev = Ops(<<>>, -1, -1)
  /\ ret = -1
  /\ calc_seq = <<>>
  /\ panicked = FALSE
  /\ curr_h = 1
  /\ curr_v = 1
  /\ coord = 0
  /\ n_edits = 0
  /\ topo_vec = <<>>

InitTopo == topo_ready(MaxAdjLen, FALSE)

(* let topo = topo_sort(sensi, target, indegree); ret tells which branch of
   if topo[0] == -1 the caller takes (main.rs 500-502) *)
topo_call ==
  /\ ret = -1
  /\ \E ts \in {topo_sort(sensi, inp_arr.target, indegree)} :
       /\ topo_vec' = ts.res
       /\ indegree' = ts.indegree
       /\ ret' = IF ts.res[0] = -1 THEN 0 ELSE 1
  /\ n_edits' = n_edits + 1
  /\ UNCHANGED <<database, err, opers, sensi, len_h, len_v, inp_arr, rev, calc_seq,
                 panicked, curr_h, curr_v, coord, frame, out>>

NextTopo == topo_call
SpecTopo == InitTopo /\ [][NextTopo]_vars

(***************************************************************************)
(* topo_sort followed loop by loop: one step for every pass of a while     *)
(* loop (one pop_front and the for loop over adj[node]) and one for every  *)
(* exit of a loop                                                          *)
(***************************************************************************)

MaxStepAdjLen == 2

topo_frame_only ==
  UNCHANGED <<database, err, opers, sensi, len_h, len_v, ret, inp_arr, rev, calc_seq,
              panicked, curr_h, curr_v, coord, n_edits, topo_vec, out>>

(* lines 20-36: a pass of the discovery loop *)
discover_step ==
  /\ frame.pc = "discover" /\ frame.q # <<>> /\ frame.is_cycle # 1
  /\ \E s \in {bfs_scan(sensi[Head(frame.q)], 1, inp_arr.target, Tail(frame.q), indegree)} :
       /\ frame' = [frame EXCEPT !.q = s.q, !.is_cycle = s.is_cycle, !.ct = @ + 1,
                                 !.dequeued = Append(@, Head(frame.q))]
       /\ indegree' = s.indegree
  /\ topo_frame_only

(* lines 20-22 and 38-42, 58-60: the discovery loop ends, res is allocated, the
   cell is enqueued again and res[0] is set on either branch *)
discover_exit ==
  /\ frame.pc = "discover" /\ (frame.q = <<>> \/ frame.is_cycle = 1)
  /\ frame' = [frame EXCEPT
                 !.q = Append(@, inp_arr.target),
                 !.res = [i \in 0..(frame.ct - 1) |->
                            IF i # 0 THEN 0 ELSE IF frame.is_cycle = 1 THEN -1 ELSE frame.ct - 1],
                 !.leng = 1,
                 !.pc = IF frame.is_cycle = 1 THEN "revert" ELSE "kahn"]
  /\ UNCHANGED indegree
  /\ topo_frame_only

(* lines 44-55: a pass of the revert loop *)
revert_step ==
  /\ frame.pc = "revert" /\ frame.q # <<>>
  /\ \E s \in {revert_scan(sensi[Head(frame.q)], 1, inp_arr.target, Tail(frame.q), indegree)} :
       /\ frame' = [frame EXCEPT !.q = s.q]
       /\ indegree' = s.indegree
  /\ topo_frame_only

(* lines 62-72: a pass of Kahn's loop *)
kahn_step ==
  /\ frame.pc = "kahn" /\ frame.q # <<>>
  /\ \E s \in {kahn_scan(sensi[Head(frame.q)], 1, Tail(frame.q), indegree)} :
       /\ frame' = [frame EXCEPT !.q = s.q, !.res[frame.leng] = Head(frame.q),
                                 !.leng = @ + 1]
       /\ indegree' = s.indegree
  /\ topo_frame_only

(* lines 56 and 73: return res, and the caller's test of topo[0] (main.rs 500-502) *)
topo_return ==
  /\ frame.pc \in {"revert", "kahn"} /\ frame.q = <<>>
  /\ frame' = [frame EXCEPT !.pc = "returned"]
  /\ topo_vec' = frame.res
  /\ ret' = IF frame.res[0] = -1 THEN 0 ELSE 1
  /\ n_edits' = n_edits + 1
  /\ UNCHANGED <<database, err, opers, sensi, indegree, len_h, len_v, inp_arr, rev,
                 calc_seq, panicked, curr_h, curr_v, coord, out>>

InitTopoSteps == topo_ready(MaxStepAdjLen, TRUE)
NextTopoSteps == discover_step \/ discover_exit \/ revert_step \/ kahn_step \/ topo_return
(* the call runs on one thread with nothing to wait for: a loop that can make
   its next pass makes it *)
SpecTopoSteps == InitTopoSteps /\ [][NextTopoSteps]_vars /\ WF_vars(NextTopoSteps)

(***************************************************************************)
(* Notions the properties are stated in                                    *)
(***************************************************************************)

(* number of entries equal to y in the list s *)
count(y, s) == Cardinality({i \in 1..Len(s) : s[i] = y})

(* the two lists hold the same entries with the same multiplicities *)
same_entries(s1, s2) == \A y \in Idx : count(y, s1) = count(y, s2)

(* the operation reads cell x in its first / second operand slot, or in its rectangle:
   the cells calc looks up for each code *)
reads_slot1(op, x) ==
  /\ op.cell1 = x
  /\ (op.opcpde \in ArithCodes /\ op.opcpde[1] = "C") \/ op.opcpde \in {EQC, SLC}
reads_slot2(op, x) == op.cell2 = x /\ op.opcpde \in ArithCodes /\ op.opcpde[2] = "C"
reads_range(op, x) == is_range(op.opcpde) /\ x \in rect(op.cell1, op.cell2)
reads(op, x) == reads_slot1(op, x) \/ reads_slot2(op, x) \/ reads_range(op, x)

(* how many times the operation reads x, every operand slot counted *)
n_reads(op, x) ==
  (IF reads_slot1(op, x) THEN 1 ELSE 0) + (IF reads_slot2(op, x) THEN 1 ELSE 0)
    + (IF reads_range(op, x) THEN 1 ELSE 0)

(* the cells that the cells of S read, directly or through other cells *)
RECURSIVE read_closure(_, _)
read_closure(ops, S) ==
  LET N == S \cup {x \in Cells : \E y \in S : reads(ops[y], x)}
  IN IF N = S THEN S ELSE read_closure(ops, N)

trans_reads(ops, y) == read_closure(ops, {x \in Cells : reads(ops[y], x)})
acyclic(ops) == \A y \in Cells : y \notin trans_reads(ops, y)

(* the cells whose value depends on t, and t itself *)
affected(ops, t) == {t} \cup {y \in Cells : t \in trans_reads(ops, y)}

(* sensi holds exactly one entry y in sensi[x] for every cell y whose operation reads x *)
one_per_reader(S, ops) ==
  \A x \in Idx, y \in Idx : count(y, S[x]) = IF reads(ops[y], x) THEN 1 ELSE 0

(* the last step was a call of cell_update that returned 0 / 1 *)
rejected_step == n_edits' = n_edits + 1 /\ ret' = 0
accepted_step == n_edits' = n_edits + 1 /\ ret' = 1

request == Ops(inp_arr.opcpde, inp_arr.cell1, inp_arr.cell2)

(***************************************************************************)
(* Properties                                                              *)
(***************************************************************************)

(* C1: a rejected edit leaves every sensitivity list with the entries it had
   before the call, as a multiset. *)
C1_RejectedKeepsSensi ==
  [][rejected_step => \A k \in Idx : same_entries(sensi[k], sensi'[k])]_vars

(* C2: a rejected edit leaves the operations, the values and the error flags of
   all cells as they were, and calc is not invoked during it. *)
C2_RejectedKeepsStores ==
  [][rejected_step =>
       /\ opers' = opers
       /\ database' = database
       /\ err' = err
       /\ calc_seq' = <<>>]_vars

(* a rejected edit of a cell that holds an operation other than the requested one,
   on a sheet with a non-zero value *)
C2_Witness ==
  /\ ret = 0
  /\ opers[inp_arr.target].opcpde # <<>>
  /\ opers[inp_arr.target] # request
  /\ \E k \in Cells : database[k] # 0

(* C3: after every call of cell_update, accepted or rejected, the indegree
   workspace is zero at every index. *)
C3_IndegreeZero == \A k \in Idx : indegree[k] = 0

(* C4: the dependency relation of the installed operations is acyclic: no cell
   reads itself directly or through other cells. *)
C4_Acyclic == acyclic(opers)

(* C5: an edit is rejected only when installing its operation would make the
   target read itself, directly or through other cells; in particular an edit
   whose operation has only literal operands is never rejected. *)
C5_RejectedOnlyForCycle ==
  ret = 0 =>
    inp_arr.target \in trans_reads(install_ops(opers, inp_arr.target, request), inp_arr.target)

(* the cells whose value C6 speaks of: EQC, arithmetic with a cell operand and a
   non-zero divisor, SUM, MIN, MAX, MEA *)
recomputable(c, db, ops) ==
  LET op == ops[c]
      code == op.opcpde
      b == IF code[2] = "C" THEN db[op.cell2] ELSE op.cell2
  IN \/ code = EQC
     \/ code \in ArithCodes /\ (code[1] = "C" \/ code[2] = "C") /\ (code[3] = "D" => b # 0)
     \/ code \in {<<"S","U","M">>, <<"M","I","N">>, <<"M","A","X">>, <<"M","E","A">>}

(* C6: after an accepted edit every such cell holds the value its operation
   yields on the current values of the cells it reads. *)
C6_NoStaleReader ==
  ret = 1 =>
    \A c \in Cells :
      recomputable(c, database, opers) => calc(c, database, err, opers).database[c] = database[c]

(* C7: on an accepted edit calc is invoked once on each cell that depends on the
   target, the target first, and on every cell after the affected cells it reads. *)
C7_TopologicalOrder ==
  ret = 1 =>
    LET A == affected(opers, inp_arr.target) IN
    /\ calc_seq # <<>> /\ calc_seq[1] = inp_arr.target
    /\ {calc_seq[i] : i \in 1..Len(calc_seq)} = A
    /\ Len(calc_seq) = Cardinality(A)
    /\ \A i \in 1..Len(calc_seq), j \in 1..Len(calc_seq) :
         reads(opers[calc_seq[j]], calc_seq[i]) => i < j

(* C8: an edit whose operation reads the target itself (as an arithmetic operand,
   an EQC or SLC operand, or a cell of its range rectangle) is rejected. *)
C8_SelfReadRejected ==
  (ret # -1 /\ reads(request, inp_arr.target)) => ret = 0

(* a rejected range edit whose rectangle of several cells contains the target *)
C8_Witness ==
  /\ ret = 0
  /\ is_range(inp_arr.opcpde)
  /\ inp_arr.cell1 # inp_arr.cell2
  /\ inp_arr.target \in rect(inp_arr.cell1, inp_arr.cell2)

(* C9 as stated: after an accepted edit the number of entries y in sensi[x] is the
   number of times the operation of y reads x, two for an operation reading x in
   both operand slots. *)
C9_EntryPerRead ==
  ret = 1 => \A x \in Cells, y \in Cells : count(y, sensi[x]) = n_reads(opers[y], x)

(* C9 as the code has it: an accepted edit adds at most one entry to any
   sensitivity list, also when its operation reads the cell in both operand
   slots; and when sensi holds exactly one entry per reader before an accepted
   edit, it holds exactly one entry per reader after it. *)
C9_EntryPerReader ==
  [][accepted_step =>
       /\ \A x \in Idx : Len(sensi'[x]) <= Len(sensi[x]) + 1
       /\ one_per_reader(sensi, opers) => one_per_reader(sensi', opers')]_vars

(* an accepted edit installing an operation that reads one cell in both slots *)
C9_Witness ==
  /\ ret = 1
  /\ n_edits > 1
  /\ reads_slot1(request, inp_arr.cell1)
  /\ reads_slot2(request, inp_arr.cell1)
  /\ count(inp_arr.target, sensi[inp_arr.cell1]) = 1
  /\ one_per_reader(sensi, opers)

(* C10: after an accepted edit replacing the range R1 of the target by the range
   R2, the target occurs in sensi[k] exactly for the cells k of R2; and the next
   accepted edit of a cell of R1 outside R2 that the target does not otherwise
   depend on neither recomputes the target nor changes its value or error flag. *)
C10_RangeReplaced ==
  [][/\ (accepted_step /\ is_range(rev'.opcpde) /\ is_range(inp_arr'.opcpde))
          => \A k \in Cells :
               (count(inp_arr'.target, sensi'[k]) > 0)
                 <=> k \in rect(inp_arr'.cell1, inp_arr'.cell2)
     /\ (/\ ret = 1 /\ is_range(rev.opcpde) /\ is_range(inp_arr.opcpde)
         /\ accepted_step
         /\ inp_arr'.target \in rect_minus(rev.cell1, rev.cell2, inp_arr.cell1, inp_arr.cell2)
         /\ inp_arr'.target # inp_arr.target
         /\ inp_arr'.target \notin trans_reads(opers, inp_arr.target))
          => /\ \A i \in 1..Len(calc_seq') : calc_seq'[i] # inp_arr.target
             /\ database'[inp_arr.target] = database[inp_arr.target]
             /\ err'[inp_arr.target] = err[inp_arr.target]]_vars

(***************************************************************************)
(* Properties of calc                                                      *)
(***************************************************************************)

(* the step is one run of calc on the target, which then returned *)
calc_step ==
  /\ ret = -1 /\ ret' = 1
  /\ calc_seq' = <<inp_arr.target>>
  /\ opers' = opers

(* what an operand slot resolves to: a C slot through the value store, a V slot the literal *)
slot1(op, db) == IF op.opcpde[1] = "C" THEN db[op.cell1] ELSE op.cell1
slot2(op, db) == IF op.opcpde[2] = "C" THEN db[op.cell2] ELSE op.cell2
slot_err(op, er) ==
  (op.opcpde[1] = "C" /\ er[op.cell1]) \/ (op.opcpde[2] = "C" /\ er[op.cell2])

DivCodes == {code \in ArithCodes : code[3] = "D"}

(* q is a / b truncated toward zero: the remainder is smaller than b in magnitude
   and is zero or has the sign of a *)
is_quotient(q, a, b) ==
  LET r == a - q * b
      abs(x) == IF x < 0 THEN -x ELSE x
  IN abs(r) < abs(b) /\ (r = 0 \/ (r < 0) = (a < 0))

(* C11: when calc recomputes a cell with a divide code whose divisor resolves to
   0, the error flag becomes true and the value stays what it was; with a
   non-zero divisor the value becomes the quotient. *)
C11_DivideByZeroKeepsValue ==
  [][(calc_step /\ opers[inp_arr.target].opcpde \in DivCodes) =>
       LET t == inp_arr.target
           a == slot1(opers[t], database)
           b == slot2(opers[t], database)
       IN IF b = 0
          THEN err'[t] = TRUE /\ database'[t] = database[t]
          ELSE is_quotient(database'[t], a, b)]_vars

(* a clean cell holding 7 was given a division by a cell that holds 0: it is in
   error and still holds 7 *)
C11_Witness ==
  /\ ret = 1 /\ calc_seq = <<inp_arr.target>>
  /\ inp_arr.opcpde = <<"C","C","D">>
  /\ database[inp_arr.cell2] = 0
  /\ rev.opcpde = EQV
  /\ err[inp_arr.target]
  /\ database[inp_arr.target] = 7

(* every cell the operation reads is free of error and its divisor, if any, is not 0 *)
clean_inputs(op, db, er) ==
  /\ \A x \in Cells : reads(op, x) => ~er[x]
  /\ op.opcpde \in DivCodes => slot2(op, db) # 0

(* C12: when calc recomputes a cell whose operation has only clean inputs, the
   error flag of the cell is false afterwards whatever it was before, for every
   code, VVA, VVS and VVM included. *)
C12_CleanInputsClearError ==
  [][(calc_step /\ clean_inputs(opers[inp_arr.target], database, err))
       => err'[inp_arr.target] = FALSE]_vars

(* C13: for an arithmetic code with a non-zero divisor calc sets the value to
   operand1 (+, -, *, / truncating toward zero) operand2, C slots resolved through
   the value store, the operands in their order; the value is computed also when
   a source cell is in error, and the error flag is then true. *)
C13_ArithmeticTable ==
  [][(calc_step /\ opers[inp_arr.target].opcpde \in ArithCodes) =>
       LET t == inp_arr.target
           o == opers[t].opcpde[3]
           a == slot1(opers[t], database)
           b == slot2(opers[t], database)
           v == database'[t]
       IN /\ o = "A" => v = a + b
          /\ o = "S" => v = a - b
          /\ o = "M" => v = a * b
          /\ (o = "D" /\ b # 0) => is_quotient(v, a, b)
          /\ (slot_err(opers[t], err) /\ (o = "D" => b # 0)) => err'[t] = TRUE]_vars

(* a subtraction of a literal from a cell in error: the difference is stored, in
   the order of the operands, and the cell is in error *)
C13_Witness ==
  /\ ret = 1 /\ calc_seq = <<inp_arr.target>>
  /\ inp_arr.opcpde = <<"C","V","S">>
  /\ err[inp_arr.cell1]
  /\ rev.opcpde = EQV
  /\ database[inp_arr.target] = database[inp_arr.cell1] - inp_arr.cell2
  /\ database[inp_arr.target] # inp_arr.cell2 - database[inp_arr.cell1]
  /\ err[inp_arr.target]

(* C14: after every accepted edit, every cell whose operation reads a cell whose
   error flag is true has its own error flag true. *)
C14_ErrorReachesReaders ==
  ret = 1 => \A c \in Cells :
               (\E x \in Cells : reads(opers[c], x) /\ err[x]) => err[c]

(* C15: EQV sets the value to the literal and the error flag to false whatever
   the flag was; EQC copies both the value and the error flag of its source. *)
C15_Assignments ==
  [][calc_step =>
       LET t == inp_arr.target
           op == opers[t]
       IN /\ op.opcpde = EQV => database'[t] = op.cell1 /\ err'[t] = FALSE
          /\ op.opcpde = EQC =>
               database'[t] = database[op.cell1] /\ err'[t] = err[op.cell1]]_vars

(* a cell in error holding 7 was assigned another literal: it holds the literal
   and is no longer in error *)
C15_Witness ==
  /\ ret = 1 /\ calc_seq = <<inp_arr.target>>
  /\ inp_arr.opcpde = EQV
  /\ rev.opcpde = <<"V","V","D">>
  /\ inp_arr.cell1 # 7
  /\ database[inp_arr.target] = inp_arr.cell1
  /\ ~err[inp_arr.target]

(* the sum of f over the cells of S, in no particular order *)
RECURSIVE sum_set(_, _)
sum_set(S, f) ==
  IF S = {} THEN 0 ELSE LET k == CHOOSE k \in S : TRUE IN f[k] + sum_set(S \ {k}, f)

(* the cells of the rectangle with top-left corner c1 and bottom-right corner c2 *)
in_rectangle(x, c1, c2) ==
  /\ col_of(c1) <= col_of(x) /\ col_of(x) <= col_of(c2)
  /\ row_of(c1) <= row_of(x) /\ row_of(x) <= row_of(c2)

(* C16: over a valid rectangle SUM, MIN, MAX and MEA give the sum, the least, the
   greatest and the integer quotient sum / count of the values of exactly the
   cells of the rectangle; the destination's error flag is the OR of the cells'
   flags, and the result is computed and returned also when that OR is true. *)
C16_RangeFunctions ==
  [][(calc_step /\ opers[inp_arr.target].opcpde \in
                     {<<"S","U","M">>, <<"M","I","N">>, <<"M","A","X">>, <<"M","E","A">>}) =>
       LET t == inp_arr.target
           code == opers[t].opcpde
           R == {x \in Cells : in_rectangle(x, opers[t].cell1, opers[t].cell2)}
           total == sum_set(R, database)
           v == database'[t]
       IN /\ R # {}
          /\ code = <<"S","U","M">> => v = total
          /\ code = <<"M","I","N">> =>
               (\E x \in R : v = database[x]) /\ (\A x \in R : v <= database[x])
          /\ code = <<"M","A","X">> =>
               (\E x \in R : v = database[x]) /\ (\A x \in R : v >= database[x])
          /\ code = <<"M","E","A">> => is_quotient(v, total, Cardinality(R))
          /\ err'[t] = (\E x \in R : err[x])]_vars

(* the mean of the block A1:B2 of a sheet of three columns: A1, B1, A2 hold -3, B2
   holds 2 and is in error, C1 lies between the corners by index but outside the
   block; the destination holds -1 (the quotient -7 / 4 truncated toward zero)
   and is in error *)
C16_Witness ==
  /\ ret = 1 /\ calc_seq = <<inp_arr.target>>
  /\ len_h = 3
  /\ inp_arr.opcpde = <<"M","E","A">>
  /\ inp_arr.cell1 = 1 /\ inp_arr.cell2 = 5
  /\ database[1] = -3 /\ database[2] = -3 /\ database[4] = -3 /\ database[5] = 2
  /\ database[3] = 2
  /\ ~err[1] /\ err[5]
  /\ rev.opcpde = EQV
  /\ database[inp_arr.target] = -1
  /\ err[inp_arr.target]

(* C17: for every width columns >= 1 and every (col, row) with 1 <= col <= columns
   and row >= 1, int_to_ind maps the packed coordinate col * 1000 + row to the
   linear index col + (row - 1) * columns, and that index decodes back to
   (col, row) by col = i % columns (0 meaning columns) and
   row = i / columns + (1 if col # columns else 0). *)
C17_IndexRoundTrip ==
  coord # 0 =>
    LET col == coord \div 1000
        row == coord % 1000
    IN /\ int_to_ind(coord, len_h) = col + (row - 1) * len_h
       /\ curr_h = col
       /\ curr_v = row

(* a cell of the last column below the first row was decoded: its index is a
   multiple of the width *)
C17_Witness ==
  /\ coord # 0
  /\ len_h > 1
  /\ coord \div 1000 = len_h
  /\ coord % 1000 > 1
  /\ int_to_ind(coord, len_h) % len_h = 0
  /\ curr_h = len_h
  /\ curr_v = coord % 1000

(* C18: no well-formed edit is fatal to the process: for every code with 32-bit
   operands and stored values calc completes and leaves a value and an error
   flag, also when an arithmetic result or a range sum does not fit in 32 bits
   and when a divide code computes INT_MIN / -1. *)
C18_NeverFatal == ~panicked

(* C19: SLC with a source in error sets the error flag and leaves the value as it
   was; with a clean source it copies the source's value and clears the flag.
   SLV sets the value to its operand, negative operands included, and clears
   the flag. *)
C19_Sleep ==
  [][calc_step =>
       LET t == inp_arr.target
           op == opers[t]
       IN /\ op.opcpde = SLV => database'[t] = op.cell1 /\ err'[t] = FALSE
          /\ (op.opcpde = SLC /\ err[op.cell1]) =>
               database'[t] = database[t] /\ err'[t] = TRUE
          /\ (op.opcpde = SLC /\ ~err[op.cell1]) =>
               database'[t] = database[op.cell1] /\ err'[t] = FALSE]_vars

(* a clean cell holding 7 was put to sleep on a cell in error that holds another
   value: it is in error and still holds 7 *)
C19_Witness ==
  /\ ret = 1 /\ calc_seq = <<inp_arr.target>>
  /\ inp_arr.opcpde = SLC
  /\ err[inp_arr.cell1]
  /\ database[inp_arr.cell1] # 7
  /\ rev.opcpde = EQV
  /\ database[inp_arr.target] = 7
  /\ err[inp_arr.target]

(* the sum of the squares of the cells' distances from mean, as a natural number
   of any size *)
RECURSIVE square_sum(_, _, _)
square_sum(R, db, mean) ==
  IF R = {} THEN <<>>
  ELSE LET x == CHOOSE x \in R : TRUE
           d == bn_abs(db[x] - mean)
       IN bn_add(bn_mul(d, d), square_sum(R \ {x}, db, mean))

(* C20: STD over a valid rectangle returns the largest integer k >= 0 with
   k * k * count <= S, where mean is the integer quotient sum / count of the
   scanned values and S is the sum of (x - mean)^2 over them: the population
   standard deviation truncated to an integer. *)
C20_StdevTruncated ==
  [][(calc_step /\ opers[inp_arr.target].opcpde = <<"S","T","D">>) =>
       LET t == inp_arr.target
           R == {x \in Cells : in_rectangle(x, opers[t].cell1, opers[t].cell2)}
           n == Cardinality(R)
           total == sum_set(R, database)
           mean == CHOOSE q \in {trunc_div(total, n)} : is_quotient(q, total, n)
           S == square_sum(R, database, mean)
           k == database'[t]
           times_n(j) == bn_mul(bn_mul(bn(j), bn(j)), bn(n))
       IN /\ k >= 0
          /\ bn_le(times_n(k), S)
          /\ ~bn_le(times_n(k + 1), S)]_vars

(***************************************************************************)
(* Properties of topo_sort                                                 *)
(***************************************************************************)

(* the nodes some entry of adj[n], n in S, names *)
adj_succ(adj, S) == UNION {{adj[n][i] : i \in DOMAIN adj[n]} : n \in S}

RECURSIVE adj_close(_, _, _)
adj_close(adj, S, k) ==
  IF k = 0 THEN S ELSE adj_close(adj, S \cup adj_succ(adj, S), k - 1)

(* the nodes reached from c by one or more edges of adj *)
reach_plus(adj, c) == adj_close(adj, adj_succ(adj, {c}), Cardinality(DOMAIN adj))

(* the nodes reached from c by zero or more edges of adj *)
reach_star(adj, c) == {c} \cup reach_plus(adj, c)

topo_cell == inp_arr.target
topo_returned == ret \in {0, 1}

(* C21: topo_sort returns a result that starts with -1 exactly when the start
   cell is reached from itself by one or more edges of the adjacency structure *)
C21_SentinelIffSelfReachable ==
  topo_returned => (topo_vec[0] = -1 <=> topo_cell \in reach_plus(sensi, topo_cell))

(* a call that found the cell on a cycle of two or more edges, in a structure
   where some list names a node twice *)
C21_Witness ==
  /\ topo_returned /\ topo_vec[0] = -1
  /\ topo_cell \notin adj_succ(sensi, {topo_cell})
  /\ \E n \in DOMAIN sensi : \E i, j \in DOMAIN sensi[n] : i # j /\ sensi[n][i] = sensi[n][j]

all_zero(ind) == \A k \in DOMAIN ind : ind[k] = 0

(* the discovery walk of the call, as it stood when its loop ended *)
discovery == bfs(sensi, topo_cell, <<topo_cell>>, [k \in DOMAIN sensi |-> 0], 1, 0)

(* C22: when topo_sort returns the cycle sentinel, every entry of the indegree
   workspace is 0 on return, also the entries of the nodes that were enqueued by
   the discovery walk and not yet dequeued when the cycle was found *)
C22_CycleLeavesWorkspaceZero ==
  (topo_returned /\ topo_vec[0] = -1) => all_zero(indegree)

(* a rejected call whose discovery walk stopped with a node still in its queue,
   that node counted in the workspace at that moment *)
C22_Witness ==
  /\ topo_returned /\ topo_vec[0] = -1
  /\ discovery.q # <<>>
  /\ discovery.indegree[Head(discovery.q)] > 0
  /\ sensi[Head(discovery.q)] # <<>>

(* no cycle of adj lies within reach of c *)
acyclic_from(adj, c) == \A n \in reach_star(adj, c) : n \notin reach_plus(adj, n)

(* res is count-prefixed, lists the nodes reached from the cell once each with
   the cell first and nothing else, and the workspace is all zero *)
topo_result_complete ==
  /\ topo_vec[0] = Cardinality(reach_star(sensi, topo_cell))
  /\ DOMAIN topo_vec = 0..topo_vec[0]
  /\ topo_vec[1] = topo_cell
  /\ {topo_vec[i] : i \in 1..topo_vec[0]} = reach_star(sensi, topo_cell)
  /\ \A i, j \in 1..topo_vec[0] : topo_vec[i] = topo_vec[j] => i = j
  /\ all_zero(indegree)

(* C23, as stated: whenever topo_sort does not return the sentinel, for any
   adjacency structure, its result is count-prefixed, lists every node reached
   from the cell exactly once with the cell first and no placeholder 0, and the
   workspace is all zero on return *)
C23_AnyStructureComplete ==
  (topo_returned /\ topo_vec[0] # -1) => topo_result_complete

(* C23, amended: whenever topo_sort does not return the sentinel, res[0] is the
   number of nodes reached from the cell and res[1] is the cell, for any
   adjacency structure; when moreover no cycle lies within reach of the cell, the
   result lists every reached node exactly once with no placeholder 0 and the
   workspace is all zero on return *)
C23_AcyclicComplete ==
  (topo_returned /\ topo_vec[0] # -1) =>
    /\ topo_vec[0] = Cardinality(reach_star(sensi, topo_cell))
    /\ DOMAIN topo_vec = 0..topo_vec[0]
    /\ topo_vec[1] = topo_cell
    /\ acyclic_from(sensi, topo_cell) => topo_result_complete

(* an accepted call on three nodes, one of them counted twice through a repeated
   entry and once more from another node *)
C23_Witness ==
  /\ topo_returned /\ topo_vec[0] = 3
  /\ acyclic_from(sensi, topo_cell)
  /\ \E n \in DOMAIN sensi : \E i, j \in DOMAIN sensi[n] : i # j /\ sensi[n][i] = sensi[n][j]
  /\ \E n, m \in reach_star(sensi, topo_cell) :
       n # m /\ adj_succ(sensi, {n}) \cap adj_succ(sensi, {m}) # {}

(* the step-by-step call returns what topo_sort returns *)
steps_agree ==
  frame.pc = "returned" =>
    \E ts \in {topo_sort(sensi, topo_cell, [k \in DOMAIN sensi |-> 0])} :
      topo_vec = ts.res /\ indegree = ts.indegree

no_repeat(s) == \A i, j \in DOMAIN s : s[i] = s[j] => i = j

(* C24: every call of topo_sort terminates, for any adjacency structure, cyclic
   or not, entered with an all-zero workspace: the discovery loop dequeues each
   node at most once, and the revert loop and Kahn's loop come to an end *)
C24_TopoSortTerminates ==
  /\ [](frame.pc # "none" => no_repeat(frame.dequeued))
  /\ <>(frame.pc = "returned")

(* a call that has returned from a structure holding a cycle which does not pass
   through the cell, after the discovery loop dequeued every node *)
C24_Witness ==
  /\ frame.pc = "returned"
  /\ Len(frame.dequeued) = TopoNodes
  /\ ~acyclic_from(sensi, topo_cell)

(***************************************************************************)
(* Frame properties of cell_update                                         *)
(***************************************************************************)

(* the last step was a call of cell_update, however it ended *)
edit_step == n_edits' = n_edits + 1

(* C25: when an edit replaces a range operation of the target by another range
   operation, accepted or rejected, the sensitivity list of every cell that lies
   in both rectangles is the same sequence after the call as before it, and so is
   the list of every cell that lies in neither *)
C25_RangeToRangeFrame ==
  [][(edit_step /\ is_range(rev'.opcpde) /\ is_range(inp_arr'.opcpde)) =>
       \A k \in Cells :
         (k \in rect(rev'.cell1, rev'.cell2) <=> k \in rect(inp_arr'.cell1, inp_arr'.cell2))
           => sensi'[k] = sensi[k]]_vars

(* a rejected edit of the 2 x 2 sheet from one range to another, the rectangles
   sharing a cell that has a reader and differing in another cell *)
C25_Witness ==
  /\ ret = 0 /\ len_v = 2
  /\ is_range(rev.opcpde) /\ is_range(inp_arr.opcpde)
  /\ \E k \in rect(rev.cell1, rev.cell2) \cap rect(inp_arr.cell1, inp_arr.cell2) :
       sensi[k] # <<>>
  /\ rect(rev.cell1, rev.cell2) # rect(inp_arr.cell1, inp_arr.cell2)

(* C26: a rejected edit leaves the order of the entries of every sensitivity
   list unchanged, not only their multiplicities: a list that holds the same
   entries after the rollback as before the call is the same sequence, also when
   the target's previous operation read the cell and the target was not the last
   entry of its list *)
C26_RejectedKeepsOrder ==
  [][rejected_step =>
       \A k \in Idx : same_entries(sensi[k], sensi'[k]) => sensi'[k] = sensi[k]]_vars

(* the operation of the last request, as cell_update stored or would have stored it *)
requested == Ops(inp_arr'.opcpde, inp_arr'.cell1, inp_arr'.cell2)

only_target_operation == \A c \in Idx : c # inp_arr'.target => opers'[c] = opers[c]

only_affected_values ==
  \A c \in Idx :
    (database'[c] # database[c] \/ err'[c] # err[c]) => c \in affected(opers', inp_arr'.target)

only_read_lists ==
  \A k \in Idx : sensi'[k] # sensi[k] => (reads(rev', k) \/ reads(requested, k))

(* C27: an accepted edit changes the operation of the target only, changes the
   value or the error flag only of cells that are the target or read it through
   any number of cells, and changes the sensitivity lists only of cells that the
   target's previous or new operation reads *)
C27_AcceptedEditFrame ==
  [][accepted_step =>
       only_target_operation /\ only_affected_values /\ only_read_lists]_vars

(* C28: in a sequence of accepted edits from a fresh grid, after every edit and
   for all cells x and y, y occurs in sensi[x] exactly when the operation of y
   reads x, as a cell operand or inside its rectangle, and no sensitivity list
   holds a cell twice *)
C28_SensiIsReadersRelation ==
  \A x \in Idx, y \in Idx :
    /\ (count(y, sensi[x]) > 0) <=> reads(opers[y], x)
    /\ count(y, sensi[x]) <= 1

(* three accepted edits of the 2 x 2 sheet, the last replacing a range of the
   target by another range that shares a cell with it, a cell with two readers *)
C28_Witness ==
  /\ n_edits = 3 /\ ret = 1 /\ len_v = 2
  /\ is_range(rev.opcpde) /\ is_range(inp_arr.opcpde)
  /\ rect(rev.cell1, rev.cell2) # rect(inp_arr.cell1, inp_arr.cell2)
  /\ \E k \in rect(rev.cell1, rev.cell2) \cap rect(inp_arr.cell1, inp_arr.cell2) :
       Len(sensi[k]) = 2

(* the last step applied again the request of the call before it, which had been
   accepted and was not a delay *)
reapplied_step ==
  /\ edit_step
  /\ ret = 1
  /\ inp_arr' = inp_arr
  /\ inp_arr.opcpde \notin {SLV, SLC}

(* C29: applying an accepted edit with a code other than a delay a second time,
   immediately, is accepted again and leaves the operations, the values, the
   error flags and the entries of every sensitivity list, as a multiset, as
   the first call left them *)
C29_ReapplyIsIdempotent ==
  [][reapplied_step =>
       /\ ret' = 1
       /\ opers' = opers
       /\ database' = database
       /\ err' = err
       /\ \A k \in Idx : same_entries(sensi[k], sensi'[k])]_vars

(***************************************************************************)
(* Defaults                                                                *)
(***************************************************************************)

(* C30: from a fresh grid, in every reachable state a cell whose operation is
   empty has the value 0 and no error, and index 0 is never written: its value,
   error flag, operation and sensitivity list are those of the fresh grid, and 0
   occurs in no sensitivity list *)
C30_DefaultsKept ==
  /\ \A c \in Idx : opers[c].opcpde = <<>> => (database[c] = 0 /\ ~err[c])
  /\ database[0] = 0 /\ ~err[0]
  /\ opers[0] = Ops(<<>>, -1, -1)
  /\ sensi[0] = <<>>
  /\ \A k \in Idx : count(0, sensi[k]) = 0

(* an accepted edit during which calc was invoked on index 0, a slot of the
   returned order that Kahn's loop never filled, while a cell that has readers
   still has no operation *)
C30_Witness ==
  /\ ret = 1
  /\ \E i \in DOMAIN calc_seq : calc_seq[i] = 0
  /\ \E c \in Cells : opers[c].opcpde = <<>> /\ sensi[c] # <<>>

(***************************************************************************)
(* Properties of the validator                                             *)
(***************************************************************************)

(* the column a label names, and whether the label names a cell of the grid *)
label_col(l) == cell_to_int([l EXCEPT !.row = 0]) \div 1000
inside_grid(l) == label_col(l) \in 1..len_h /\ l.row \in 1..len_v

(* both corners in the grid, the first neither right of nor below the second *)
proper_range(l1, l2) ==
  /\ inside_grid(l1) /\ inside_grid(l2)
  /\ label_col(l1) <= label_col(l2) /\ l1.row <= l2.row

(* the rectangle the core scans for the request it was handed is not empty *)
scanned_rectangle_nonempty ==
  [][(edit_step /\ is_range(inp_arr'.opcpde)) => rect(inp_arr'.cell1, inp_arr'.cell2) # {}]_vars

(* C31: a range operation reaches cell_update only when both corners are inside
   the grid and the first is not right of or below the second, otherwise the
   message is "Invalid Range" and cell_update is not called, so that every
   rectangle the core scans holds a cell; and an edit whose target or cell
   operand is outside the grid does not reach cell_update *)
C31_OnlyInGridRequestsReachCore ==
  [][/\ edit_step =>
          /\ inside_grid(out'.target)
          /\ out'.opcpde = EQC => inside_grid(out'.op1)
          /\ is_range(out'.opcpde) =>
               /\ proper_range(out'.op1, out'.op2)
               /\ rect(inp_arr'.cell1, inp_arr'.cell2) # {}
     /\ (/\ out' # out
         /\ is_range(out'.opcpde)
         /\ inside_grid(out'.target)
         /\ ~proper_range(out'.op1, out'.op2))
          => (out'.status = "Invalid Range" /\ ~edit_step)]_vars

====
